---- MODULE Spec2Model ----
(***************************************************************************)
(* A model of puff::SparseMatrixWrapper (include/SparseMatrix.h): the      *)
(* mutex-guarded entry store, the materialisation of the entry store into  *)
(* a sorted COO matrix with a permutation-based transpose view, and the    *)
(* multiply dispatch on top of them.                                       *)
(*                                                                         *)
(* Arrays are 0-based in the code and 1-based sequences here: element n of *)
(* an array is s[n + 1].  Index values (rows, columns, the entries of the  *)
(* permutation) keep their 0-based values.                                 *)
(*                                                                         *)
(* IndexType is an unsigned integer of IndexBits bits and KEY_TYPE one of  *)
(* 2 * IndexBits bits; the code has 32 and 64.  The width is scaled down   *)
(* so that the largest index, where IndexType arithmetic wraps, is a value *)
(* the checker can enumerate.                                              *)
(*                                                                         *)
(* A value (ValueType) is a Gaussian integer <<re, im>>; a real value type *)
(* is the case im = 0.                                                     *)
(***************************************************************************)
EXTENDS Integers, Sequences, FiniteSets, TLC

IndexBits == 2

IndexMod == 2 ^ IndexBits

MaxIndex == IndexMod - 1

KeyMod == IndexMod * IndexMod

IndexValues == 0 .. MaxIndex

(***************************************************************************)
(* Values                                                                  *)
(***************************************************************************)
Zero == <<0, 0>>

V1 == <<1, 0>>

V2 == <<2, 1>>

VAdd(a, b) == <<a[1] + b[1], a[2] + b[2]>>

VMul(a, b) == <<a[1] * b[1] - a[2] * b[2], a[1] * b[2] + a[2] * b[1]>>

(***************************************************************************)
(* Composite key codec                                                     *)
(***************************************************************************)
\* Mutant: the row is shifted by one bit only.
row_col_to_key_NarrowShift(row, col) == ((row * 2) + col) % KeyMod

\* ((KEY_TYPE)row << 32) + col
row_col_to_key(row, col) == ((row * IndexMod) + col) % KeyMod

key_to_row_col(key) == <<(key \div IndexMod) % IndexMod, key % IndexMod>>

(***************************************************************************)
(* Sequence helpers                                                        *)
(***************************************************************************)
Range(s) == {s[i] : i \in DOMAIN s}

\* All the orders in which the elements of S can be visited once each.
Orders(S) ==
    {s \in [1 .. Cardinality(S) -> S] : \A i, j \in DOMAIN s : i # j => s[i] # s[j]}

\* s read through the positions p: element n is s[p[n]].
Gather(s, p) == [n \in DOMAIN p |-> s[p[n]]]

(***************************************************************************)
(* Entry store: std::unordered_map<KEY_TYPE, ValueType>, a function from   *)
(* the keys present to their values.                                       *)
(***************************************************************************)
EmptyStore == [k \in {} |-> Zero]

\* Mutant: the first value stored under a key stays (insert without assignment).
StorePut_KeepFirst(e, key, val) ==
    [k \in DOMAIN e \cup {key} |-> IF k \in DOMAIN e THEN e[k] ELSE val]

\* entries[key] = val
StorePut(e, key, val) == [k \in DOMAIN e \cup {key} |-> IF k = key THEN val ELSE e[k]]

\* Mutant: nothing is erased.
StoreErase_Nothing(e, key) == e

\* entries.erase(key)
StoreErase(e, key) == [k \in DOMAIN e \ {key} |-> e[k]]

\* The (row, col, value) of the coordinates a store maps to a non-zero value.
StoredTriplets(e) ==
    {<<rc[1], rc[2], e[row_col_to_key(rc[1], rc[2])]>> :
        rc \in {q \in IndexValues \X IndexValues :
                   /\ row_col_to_key(q[1], q[2]) \in DOMAIN e
                   /\ e[row_col_to_key(q[1], q[2])] # Zero}}

(***************************************************************************)
(* make_matrix, lines 56-65: the staging loop.  ord is the order in which  *)
(* the unordered map hands out its keys.                                   *)
(***************************************************************************)
\* Mutant: no value counts as zero.
IsZero_Never(value) == FALSE

IsZero(value) == value = Zero

StagedKeys(ord, e) == SelectSeq(ord, LAMBDA k : ~ IsZero(e[k]))

Staged(keys, e) ==
    [I |-> [n \in DOMAIN keys |-> key_to_row_col(keys[n])[1]],
     J |-> [n \in DOMAIN keys |-> key_to_row_col(keys[n])[2]],
     V |-> [n \in DOMAIN keys |-> e[keys[n]]]]

(***************************************************************************)
(* thrust::stable_sort_by_key: the positions of the keys in stable         *)
(* ascending order; the keys and the zipped arrays are read through them.  *)
(***************************************************************************)
Rank(keys, i) ==
    1 + Cardinality({j \in DOMAIN keys :
                        keys[j] < keys[i] \/ (keys[j] = keys[i] /\ j < i)})

StableSortPositions(keys) ==
    [r \in DOMAIN keys |-> CHOOSE i \in DOMAIN keys : Rank(keys, i) = r]

\* line 79: keys h_J, zipped (h_I, h_V)
SortByJ(h) ==
    LET p == StableSortPositions(h.J)
    IN  [I |-> Gather(h.I, p), J |-> Gather(h.J, p), V |-> Gather(h.V, p)]

\* line 80: keys h_I, zipped (h_J, h_V)
SortByI(h) ==
    LET p == StableSortPositions(h.I)
    IN  [I |-> Gather(h.I, p), J |-> Gather(h.J, p), V |-> Gather(h.V, p)]

\* Mutant: the two sorts in the other order.
SortTriplets_RowFirst(h) == SortByJ(SortByI(h))

SortTriplets(h) == SortByI(SortByJ(h))

(***************************************************************************)
(* lines 84-85: *thrust::max_element(...) + 1 in IndexType.                *)
(***************************************************************************)
MaxElement(s) == CHOOSE m \in Range(s) : \A v \in Range(s) : v <= m

DimOf(s) == (MaxElement(s) + 1) % IndexMod

(***************************************************************************)
(* lines 114-121: the COO matrix; lines 124-126: the permutation, the      *)
(* counting array 0 .. n-1 carried along a stable sort of a copy of the    *)
(* column indices; lines 127-133: the view, which takes the dimensions it  *)
(* is given and reads the matrix's arrays through the permutation.         *)
(***************************************************************************)
EmptyMatrix ==
    [num_rows |-> 0, num_cols |-> 0, num_entries |-> 0,
     row_indices |-> <<>>, column_indices |-> <<>>, values |-> <<>>]

CooMatrix(numRows, numCols, s) ==
    [num_rows |-> numRows, num_cols |-> numCols, num_entries |-> Len(s.V),
     row_indices |-> s.I, column_indices |-> s.J, values |-> s.V]

TransposePermutation(m) ==
    LET p == StableSortPositions(m.column_indices)
    IN  [n \in DOMAIN p |-> p[n] - 1]

\* cusp::counting_sort_by_key is given the key range [0, num_cols).
KeysInRange(m) == \A n \in DOMAIN m.column_indices : m.column_indices[n] < m.num_cols

EmptyView == [num_rows |-> 0, num_cols |-> 0, num_entries |-> 0]

MakeView(m) ==
    [num_rows |-> m.num_rows, num_cols |-> m.num_cols, num_entries |-> m.num_entries]

(***************************************************************************)
(* State                                                                   *)
(***************************************************************************)
VARIABLES
    entries,      \* the entry store
    matrix,       \* the COO matrix
    permutation,  \* the permutation of the transpose view
    matrix_t,     \* the transpose view: its dimensions; its arrays are the
                  \* matrix's arrays read through permutation
    fault,        \* "none", or "crash" once the process has died
    last,         \* the call that returned last, and what it met
    out,          \* the numeric call that returned last, its arguments and
                  \* results, while no other call has returned since
    mtx,          \* the mutex: the thread that holds it, or NoThread
    thr,          \* each thread's position in its call, and its locals
    ser,          \* the calls applied one at a time in the order of their
                  \* lock acquisitions: the store and the matrix's triplets
    ValueType     \* the template argument of the instance: "dcomplex" or
                  \* "double"

vars ==
    <<entries, matrix, permutation, matrix_t, fault, last, out, mtx, thr, ser, ValueType>>

thrVars == <<mtx, thr, ser>>

\* What no call changes.
fixedVars == <<ValueType>>

Threads == {"t1", "t2"}

NoThread == "none"

Idle ==
    [pc |-> "idle", op |-> "none", key |-> 0, val |-> Zero, h |-> <<>>, n |-> 0,
     x |-> <<>>, y |-> <<>>, transpose |-> FALSE, conjugate |-> FALSE, race |-> "none"]

NoCall ==
    [op |-> "none", x_in |-> <<>>, y_in |-> <<>>, aliased |-> FALSE,
     transpose |-> FALSE, conjugate |-> FALSE, x |-> <<>>, y |-> <<>>, ub |-> FALSE]

get_num_rows == matrix.num_rows

get_num_cols == matrix.num_cols

get_num_entries == matrix.num_entries

Init ==
    /\ entries = EmptyStore
    /\ matrix = EmptyMatrix
    /\ permutation = <<>>
    /\ matrix_t = EmptyView
    /\ fault = "none"
    /\ last = [op |-> "none", hit |-> FALSE]
    /\ out = NoCall
    /\ mtx = NoThread
    /\ thr = [t \in Threads |-> Idle]
    /\ ser = [entries |-> EmptyStore, triplets |-> {}]
    /\ ValueType = "dcomplex"

(***************************************************************************)
(* The guarded calls, each as one step: the lock is held from the first    *)
(* access to the last.                                                     *)
(***************************************************************************)
insert_entry(row, col, val) ==
    LET row_col_string == row_col_to_key(row, col)
        hit == row_col_string \in DOMAIN entries /\ entries[row_col_string] # val
    IN  /\ fault = "none"
        /\ entries' = StorePut(entries, row_col_string, val)
        /\ last' = [op |-> "insert_entry", hit |-> hit]
        /\ out' = NoCall
        /\ UNCHANGED <<matrix, permutation, matrix_t, fault, thrVars, fixedVars>>

remove_entry(row, col) ==
    LET row_col_string == row_col_to_key(row, col)
        hit == row_col_string \in DOMAIN entries
    IN  /\ fault = "none"
        /\ entries' = StoreErase(entries, row_col_string)
        /\ last' = [op |-> "remove_entry", hit |-> hit]
        /\ out' = NoCall
        /\ UNCHANGED <<matrix, permutation, matrix_t, fault, thrVars, fixedVars>>

\* lines 114-133, with the dimensions lines 84-85 produced
Materialize(numRows, numCols, s, skipped) ==
    LET m == CooMatrix(numRows, numCols, s)
    IN  /\ entries' = EmptyStore
        /\ matrix' = m
        /\ permutation' = TransposePermutation(m)
        /\ matrix_t' = MakeView(m)
        /\ last' = [op |-> "make_matrix", hit |-> skipped]
        /\ out' = NoCall
        /\ UNCHANGED fault

\* What a read of storage that holds no element may yield.
GarbageValues == {0, 1, MaxIndex}

\* What a counting sort that indexed outside its bins may leave in the n
\* elements of the permutation.
GarbagePermutations(n) == {[i \in 1 .. n |-> 0]}

\* lines 114-133, the counting sort of line 126 having been handed keys
\* outside its range
MaterializeUnsorted(numRows, numCols, s, skipped) ==
    LET m == CooMatrix(numRows, numCols, s)
    IN  /\ entries' = EmptyStore
        /\ matrix' = m
        /\ permutation' \in GarbagePermutations(m.num_entries)
        /\ matrix_t' = MakeView(m)
        /\ last' = [op |-> "make_matrix", hit |-> skipped]
        /\ out' = NoCall
        /\ UNCHANGED fault

Crash ==
    /\ fault' = "crash"
    /\ UNCHANGED <<entries, matrix, permutation, matrix_t, last, out>>

\* lines 67-133 on the staged arrays h, of which size were allocated; s is
\* the arrays as the two sorts leave them
BuildFrom(h, size) ==
    \E s \in {SortTriplets(h)} :
    LET nnz == Len(h.V)
        skipped == nnz < size
    IN  \/ /\ nnz > 0
           /\ KeysInRange(CooMatrix(DimOf(s.I), DimOf(s.J), s))
           /\ Materialize(DimOf(s.I), DimOf(s.J), s, skipped)
        \* A column index of MaxIndex wraps num_cols to 0: the counting sort is
        \* handed keys outside its range.  The sort-based implementation still
        \* sorts; the counting one indexes outside its bins, and faults or
        \* goes on with what that left.
        \/ /\ nnz > 0
           /\ ~ KeysInRange(CooMatrix(DimOf(s.I), DimOf(s.J), s))
           /\ \/ Materialize(DimOf(s.I), DimOf(s.J), s, skipped)
              \/ MaterializeUnsorted(DimOf(s.I), DimOf(s.J), s, skipped)
              \/ Crash
        \* max_element of an empty range returns end(), which lines 84-85
        \* dereference: the read faults or yields whatever is there.
        \/ /\ nnz = 0
           /\ \/ \E g1, g2 \in GarbageValues : Materialize(g1, g2, s, skipped)
              \/ Crash

make_matrix ==
    /\ fault = "none"
    /\ \E ord \in Orders(DOMAIN entries) :
          BuildFrom(Staged(StagedKeys(ord, entries), entries), Len(ord))
    /\ UNCHANGED <<thrVars, fixedVars>>

\* Mutant: only the matrix is swapped out.
reset_KeepEntries ==
    /\ fault = "none"
    /\ matrix' = EmptyMatrix
    /\ last' = [op |-> "reset", hit |-> matrix # EmptyMatrix \/ entries # EmptyStore]
    /\ out' = NoCall
    /\ UNCHANGED <<entries, permutation, matrix_t, fault, thrVars, fixedVars>>

reset ==
    /\ fault = "none"
    /\ matrix' = EmptyMatrix
    /\ entries' = EmptyStore
    /\ last' = [op |-> "reset", hit |-> matrix # EmptyMatrix \/ entries # EmptyStore]
    /\ out' = NoCall
    /\ UNCHANGED <<permutation, matrix_t, fault, thrVars, fixedVars>>

(***************************************************************************)
(* One caller.  Its coordinates share rows and share columns, give square  *)
(* and non-square matrices and include the largest index; its values give  *)
(* explicit zeros and overwrites with a different value.                   *)
(***************************************************************************)
CoordInputs == {<<0, 1>>, <<1, 0>>, <<1, 1>>, <<MaxIndex, MaxIndex>>}

InsertInputs ==
    {<<0, 1, Zero>>, <<0, 1, V1>>, <<0, 1, V2>>,
     <<1, 0, V1>>, <<1, 0, V2>>,
     <<1, 1, V1>>,
     <<MaxIndex, MaxIndex, Zero>>, <<MaxIndex, MaxIndex, V2>>}

Next ==
    \/ \E in \in InsertInputs : insert_entry(in[1], in[2], in[3])
    \/ \E rc \in CoordInputs : remove_entry(rc[1], rc[2])
    \/ make_matrix
    \/ reset

Spec == Init /\ [][Next]_vars

(***************************************************************************)
(* cusp::multiply on a COO operand and dense vectors: y[i] is set to 0 for *)
(* i < num_rows, then each entry n adds values[n] * x[column n] to         *)
(* y[row n].  Neither vector is resized or checked; ok is FALSE when an    *)
(* access falls outside a vector.                                          *)
(***************************************************************************)
RECURSIVE Accumulate(_, _, _, _)

Accumulate(A, x, y, n) ==
    IF n > A.num_entries
    THEN [ok |-> TRUE, y |-> y]
    ELSE LET i == A.row_indices[n]
             j == A.column_indices[n]
         IN  IF j + 1 > Len(x) \/ i + 1 > Len(y)
             THEN [ok |-> FALSE, y |-> y]
             ELSE Accumulate(A, x,
                             [y EXCEPT ![i + 1] = VAdd(@, VMul(A.values[n], x[j + 1]))],
                             n + 1)

multiply(A, x, y) ==
    IF A.num_rows > Len(y)
    THEN [ok |-> FALSE, y |-> y]
    ELSE Accumulate(A, x, [i \in DOMAIN y |-> IF i <= A.num_rows THEN Zero ELSE y[i]], 1)

\* Vector<ValueType, MemorySpace> temp(x.size())
ZeroVector(n) == [i \in 1 .. n |-> Zero]

(***************************************************************************)
(* SpMV's operands.  The view's arrays are permutation iterators into the  *)
(* matrix's arrays: column_indices as its rows, row_indices as its         *)
(* columns.  They can be read while every position the permutation names   *)
(* is inside the arrays the matrix has now.                                *)
(***************************************************************************)
Conj(v) == <<v[1], 0 - v[2]>>

\* thrust::transform(values, values, conjugate_functor), lines 162 and 189
ConjugateValues(m) == [m EXCEPT !.values = [n \in DOMAIN m.values |-> Conj(m.values[n])]]

ViewReadable(m, perm, view) ==
    /\ view.num_entries <= Len(perm)
    /\ \A n \in 1 .. view.num_entries :
          /\ perm[n] + 1 <= Len(m.row_indices)
          /\ perm[n] + 1 <= Len(m.column_indices)
          /\ perm[n] + 1 <= Len(m.values)

ViewOperand(m, perm, view) ==
    [num_rows |-> view.num_rows, num_cols |-> view.num_cols,
     num_entries |-> view.num_entries,
     row_indices |-> [n \in 1 .. view.num_entries |-> m.column_indices[perm[n] + 1]],
     column_indices |-> [n \in 1 .. view.num_entries |-> m.row_indices[perm[n] + 1]],
     values |-> [n \in 1 .. view.num_entries |-> m.values[perm[n] + 1]]]

\* Mutant: the aliased call multiplies in place, x being read while it is
\* overwritten.
RECURSIVE AccumulateInPlace(_, _, _)

AccumulateInPlace(A, v, n) ==
    IF n > A.num_entries
    THEN [ok |-> TRUE, y |-> v]
    ELSE LET i == A.row_indices[n]
             j == A.column_indices[n]
         IN  IF j + 1 > Len(v) \/ i + 1 > Len(v)
             THEN [ok |-> FALSE, y |-> v]
             ELSE AccumulateInPlace(A,
                                    [v EXCEPT ![i + 1] = VAdd(@, VMul(A.values[n], v[j + 1]))],
                                    n + 1)

MultiplyAliased_InPlace(A, x) ==
    IF A.num_rows > Len(x)
    THEN [ok |-> FALSE, y |-> x]
    ELSE AccumulateInPlace(A, [i \in DOMAIN x |-> IF i <= A.num_rows THEN Zero ELSE x[i]], 1)

\* lines 166-174: &x == &y
MultiplyAliased(A, x) == multiply(A, x, ZeroVector(Len(x)))

\* What an access outside a vector may leave in the result.
GarbageVectors(n) == {[i \in 1 .. n |-> g] : g \in {Zero, V2}}

(***************************************************************************)
(* SpMV, with no other call running.  With a complex value type,           *)
(* conjugate = TRUE conjugates the stored values before the multiply and   *)
(* again after it; with any other value type the two blocks are compiled   *)
(* out.  x and y0 are the caller's vectors; aliased says they are one      *)
(* object.                                                                 *)
(***************************************************************************)
\* Mutant: the conjugation blocks are compiled out for every value type.
IsComplexType_Never == FALSE

\* lines 156-159 and 183-186: if constexpr (is_same_v<ValueType, dcomplex> || ...)
IsComplexType == ValueType = "dcomplex"

\* The matrix as the multiply of a call reads it, and as the call leaves it.
ConjugatedFor(m, conjugate) == IF IsComplexType /\ conjugate THEN ConjugateValues(m) ELSE m

SpMV(x, y0, aliased, transpose, conjugate) ==
    LET m1 == ConjugatedFor(matrix, conjugate)
        readable == ~ transpose \/ ViewReadable(m1, permutation, matrix_t)
        A == IF transpose THEN ViewOperand(m1, permutation, matrix_t) ELSE m1
        r == IF aliased THEN MultiplyAliased(A, x) ELSE multiply(A, x, y0)
        m2 == ConjugatedFor(m1, conjugate)
        call == [op |-> "SpMV", x_in |-> x, y_in |-> IF aliased THEN x ELSE y0,
                 aliased |-> aliased, transpose |-> transpose, conjugate |-> conjugate,
                 x |-> x, y |-> y0, ub |-> FALSE]
    IN  /\ fault = "none"
        /\ \/ /\ readable
              /\ r.ok
              /\ out' = [call EXCEPT !.x = IF aliased THEN r.y ELSE x, !.y = r.y]
              /\ matrix' = m2
              /\ last' = [op |-> "SpMV", hit |-> FALSE]
              /\ UNCHANGED fault
           \* An access outside a vector, or through a view whose arrays are
           \* gone: the call faults, or returns with whatever it left.
           \/ /\ ~ (readable /\ r.ok)
              /\ \/ /\ \E g \in GarbageVectors(IF aliased THEN Len(x) ELSE Len(y0)) :
                          out' = [call EXCEPT !.x = IF aliased THEN g ELSE x,
                                              !.y = g, !.ub = TRUE]
                    /\ matrix' = m2
                    /\ last' = [op |-> "SpMV", hit |-> FALSE]
                    /\ UNCHANGED fault
                 \/ /\ fault' = "crash"
                    /\ UNCHANGED <<matrix, last, out>>
        /\ UNCHANGED <<entries, permutation, matrix_t, thrVars, fixedVars>>

(***************************************************************************)
(* One caller that builds matrices of up to 2 x 2, square and not, and     *)
(* multiplies them with vectors of up to MaxVecLen elements.               *)
(***************************************************************************)
MaxVecLen == 2

InsertInputsMV == {<<0, 0, V1>>, <<0, 1, V2>>, <<1, 0, V1>>}

XInputs == {[i \in 1 .. n |-> IF i = 1 THEN V1 ELSE V2] : n \in 1 .. MaxVecLen}

\* The output vector arrives holding earlier contents.
YInputs == {[i \in 1 .. n |-> V2] : n \in 1 .. MaxVecLen}

NextMV ==
    \/ \E in \in InsertInputsMV : insert_entry(in[1], in[2], in[3])
    \/ make_matrix
    \/ reset
    \/ \E x \in XInputs, transpose, conjugate \in BOOLEAN :
          \/ SpMV(x, x, TRUE, transpose, conjugate)
          \/ \E y0 \in YInputs : SpMV(x, y0, FALSE, transpose, conjugate)

SpecMV == Init /\ [][NextMV]_vars

(***************************************************************************)
(* The guarded calls step by step, from several threads.  A thread is idle,*)
(* at "lock" (its key computed, waiting for the mutex), "held" (inside the *)
(* lock_guard's scope) or, in make_matrix, "staged" (the loop of lines     *)
(* 57-65 done, the store not yet swapped out).  The lock_guard releases    *)
(* the mutex where its scope ends, with the last step of the call.         *)
(*                                                                         *)
(* ser applies each call in one piece when it takes the mutex.             *)
(*                                                                         *)
(* A call that takes no lock is at "run" (entered) or "mul" (reading the   *)
(* matrix or the view).  A write to what such a call is reading is a data  *)
(* race: race records the first writer that call met.                      *)
(***************************************************************************)
Accessors == {"get_num_rows", "get_num_cols", "get_num_entries"}

\* th after a write of kind `kind` to the matrix's dimensions and arrays: the
\* accessors and multiplies under way have met it.
WriteSeen(th, kind) ==
    [u \in Threads |->
        IF /\ th[u].race = "none"
           /\ \/ th[u].pc = "mul"
              \/ th[u].pc = "run" /\ th[u].op \in Accessors
        THEN [th[u] EXCEPT !.race = kind]
        ELSE th[u]]

\* Mutant: the mutex is taken whoever holds it.
LockFree_Always(m) == TRUE

LockFree(m) == m = NoThread

Call(t, op, row, col, val) ==
    /\ fault = "none"
    /\ thr[t].pc = "idle"
    /\ thr' = [thr EXCEPT ![t] = [Idle EXCEPT !.pc = "lock", !.op = op,
                                              !.key = row_col_to_key(row, col),
                                              !.val = val]]
    /\ UNCHANGED <<entries, matrix, permutation, matrix_t, fault, last, out, mtx, ser, fixedVars>>

SerialAfter(op, key, val) ==
    CASE op = "insert_entry" -> [ser EXCEPT !.entries = StorePut(@, key, val)]
      [] op = "remove_entry" -> [ser EXCEPT !.entries = StoreErase(@, key)]
      [] op = "make_matrix" ->
            [entries |-> EmptyStore, triplets |-> StoredTriplets(ser.entries)]
      [] op = "reset" -> [entries |-> EmptyStore, triplets |-> {}]
      [] OTHER -> ser

Lock(t) ==
    /\ fault = "none"
    /\ thr[t].pc = "lock"
    /\ LockFree(mtx)
    /\ mtx' = t
    /\ thr' = [thr EXCEPT ![t].pc = "held"]
    /\ ser' = SerialAfter(thr[t].op, thr[t].key, thr[t].val)
    /\ UNCHANGED <<entries, matrix, permutation, matrix_t, fault, last, out, fixedVars>>

InsertBody(t) ==
    /\ fault = "none"
    /\ thr[t].pc = "held"
    /\ thr[t].op = "insert_entry"
    /\ entries' = StorePut(entries, thr[t].key, thr[t].val)
    /\ last' = [op |-> "insert_entry",
                hit |-> thr[t].key \in DOMAIN entries /\ entries[thr[t].key] # thr[t].val]
    /\ out' = NoCall
    /\ mtx' = NoThread
    /\ thr' = [thr EXCEPT ![t] = Idle]
    /\ UNCHANGED <<matrix, permutation, matrix_t, fault, ser, fixedVars>>

RemoveBody(t) ==
    /\ fault = "none"
    /\ thr[t].pc = "held"
    /\ thr[t].op = "remove_entry"
    /\ entries' = StoreErase(entries, thr[t].key)
    /\ last' = [op |-> "remove_entry", hit |-> thr[t].key \in DOMAIN entries]
    /\ out' = NoCall
    /\ mtx' = NoThread
    /\ thr' = [thr EXCEPT ![t] = Idle]
    /\ UNCHANGED <<matrix, permutation, matrix_t, fault, ser, fixedVars>>

\* lines 52-65
MakeStage(t) ==
    /\ fault = "none"
    /\ thr[t].pc = "held"
    /\ thr[t].op = "make_matrix"
    /\ \E ord \in Orders(DOMAIN entries) :
          thr' = [thr EXCEPT ![t].pc = "staged",
                             ![t].h = Staged(StagedKeys(ord, entries), entries),
                             ![t].n = Len(ord)]
    /\ UNCHANGED <<entries, matrix, permutation, matrix_t, fault, last, out, mtx, ser, fixedVars>>

\* lines 67-134
MakeBuild(t) ==
    /\ fault = "none"
    /\ thr[t].pc = "staged"
    /\ BuildFrom(thr[t].h, thr[t].n)
    /\ mtx' = NoThread
    /\ thr' = WriteSeen([thr EXCEPT ![t] = Idle], "make_matrix")
    /\ UNCHANGED <<ser, fixedVars>>

ResetBody(t) ==
    /\ fault = "none"
    /\ thr[t].pc = "held"
    /\ thr[t].op = "reset"
    /\ matrix' = EmptyMatrix
    /\ entries' = EmptyStore
    /\ last' = [op |-> "reset", hit |-> matrix # EmptyMatrix \/ entries # EmptyStore]
    /\ out' = NoCall
    /\ mtx' = NoThread
    /\ thr' = WriteSeen([thr EXCEPT ![t] = Idle], "reset")
    /\ UNCHANGED <<permutation, matrix_t, fault, ser, fixedVars>>

InsertInputsT == {<<0, 0, V1>>, <<0, 0, Zero>>, <<1, 0, V2>>}

RemoveInputsT == {<<0, 0>>}

NextThreads ==
    \E t \in Threads :
       \/ \E in \in InsertInputsT : Call(t, "insert_entry", in[1], in[2], in[3])
       \/ \E rc \in RemoveInputsT : Call(t, "remove_entry", rc[1], rc[2], Zero)
       \/ Call(t, "make_matrix", 0, 0, Zero)
       \/ Call(t, "reset", 0, 0, Zero)
       \/ Lock(t)
       \/ InsertBody(t)
       \/ RemoveBody(t)
       \/ MakeStage(t)
       \/ MakeBuild(t)
       \/ ResetBody(t)

SpecThreads == Init /\ [][NextThreads]_vars

(***************************************************************************)
(* What the claims speak of                                                *)
(***************************************************************************)
\* The (row, col, value) a COO matrix holds.
TripletsOf(m) ==
    {<<m.row_indices[n], m.column_indices[n], m.values[n]>> : n \in 1 .. m.num_entries}

\* The positions of a COO matrix that hold coordinate (r, c).
PositionsAt(m, r, c) ==
    {n \in 1 .. m.num_entries : m.row_indices[n] = r /\ m.column_indices[n] = c}

\* This step is the return of a call of make_matrix (of reset): the call as
\* one step, or the last step of a thread's call.
MakeMatrixReturns ==
    /\ last'.op = "make_matrix"
    /\ fault' = "none"
    /\ \/ thr' = thr
       \/ \E t \in Threads : thr[t].pc = "staged" /\ thr'[t].pc = "idle"

ResetReturns ==
    /\ last'.op = "reset"
    /\ fault' = "none"
    /\ \/ thr' = thr
       \/ \E t \in Threads :
             thr[t].pc = "held" /\ thr[t].op = "reset" /\ thr'[t].pc = "idle"

\* C1: after make_matrix the matrix holds exactly the coordinates the entry
\* store mapped to a non-zero value when it was called, each once: no entry is
\* zero, num_entries is their number, and the three arrays have that length.
C1_ZeroFiltering ==
    [][MakeMatrixReturns =>
         /\ matrix'.num_entries = Cardinality(StoredTriplets(entries))
         /\ Len(matrix'.row_indices) = matrix'.num_entries
         /\ Len(matrix'.column_indices) = matrix'.num_entries
         /\ Len(matrix'.values) = matrix'.num_entries
         /\ \A n \in 1 .. matrix'.num_entries : matrix'.values[n] # Zero
         /\ TripletsOf(matrix') = StoredTriplets(entries)
         /\ \A k \in DOMAIN entries :
               entries[k] = Zero =>
                  PositionsAt(matrix', key_to_row_col(k)[1], key_to_row_col(k)[2]) = {}]_vars

\* A make_matrix that skipped an explicit zero and kept two entries.
C1_Witness ==
    /\ last.op = "make_matrix"
    /\ last.hit
    /\ fault = "none"
    /\ matrix.num_entries >= 2

\* C2: an insert to a coordinate leaves that coordinate with the value just
\* inserted, whatever it held, and every other coordinate as it was; and
\* make_matrix yields one entry at each coordinate stored with a non-zero
\* value, carrying the stored value, and none elsewhere.
C2_Overwrite ==
    [][/\ \A in \in InsertInputs :
             insert_entry(in[1], in[2], in[3]) =>
                LET k == row_col_to_key(in[1], in[2])
                IN  /\ k \in DOMAIN entries'
                    /\ entries'[k] = in[3]
                    /\ DOMAIN entries' = DOMAIN entries \cup {k}
                    /\ \A k2 \in DOMAIN entries \ {k} : entries'[k2] = entries[k2]
       /\ MakeMatrixReturns =>
             \A r, c \in IndexValues :
                LET k == row_col_to_key(r, c)
                    at == PositionsAt(matrix', r, c)
                IN  IF k \in DOMAIN entries /\ entries[k] # Zero
                    THEN /\ Cardinality(at) = 1
                         /\ \A n \in at : matrix'.values[n] = entries[k]
                    ELSE at = {}]_vars

\* An insert that met another value at its coordinate, next to other entries.
C2_Witness ==
    /\ last.op = "insert_entry"
    /\ last.hit
    /\ Cardinality(DOMAIN entries) >= 2

\* C3: remove_entry leaves the store without the coordinate and with every
\* other coordinate and value as they were (a coordinate not stored: the store
\* as it was), and does not touch the matrix; make_matrix has no entry at a
\* coordinate that is not in the store.
C3_Removal ==
    [][/\ \A rc \in CoordInputs :
             remove_entry(rc[1], rc[2]) =>
                LET k == row_col_to_key(rc[1], rc[2])
                IN  /\ k \notin DOMAIN entries'
                    /\ DOMAIN entries' = DOMAIN entries \ {k}
                    /\ \A k2 \in DOMAIN entries' : entries'[k2] = entries[k2]
                    /\ k \notin DOMAIN entries => entries' = entries
                    /\ matrix' = matrix
       /\ MakeMatrixReturns =>
             \A r, c \in IndexValues :
                row_col_to_key(r, c) \notin DOMAIN entries => PositionsAt(matrix', r, c) = {}]_vars

\* A remove_entry that met its coordinate and left others in the store.
C3_Witness ==
    /\ last.op = "remove_entry"
    /\ last.hit
    /\ entries # EmptyStore

RowMajor(m) ==
    \A n \in 1 .. m.num_entries - 1 :
       \/ m.row_indices[n] < m.row_indices[n + 1]
       \/ /\ m.row_indices[n] = m.row_indices[n + 1]
          /\ m.column_indices[n] <= m.column_indices[n + 1]

\* C4: after make_matrix the triplets are in row-major order, rows
\* non-decreasing and columns non-decreasing within a row, and each is a
\* (row, col, value) that was stored: the two sorts move the three arrays
\* together.
C4_CanonicalOrder ==
    [][MakeMatrixReturns =>
         /\ RowMajor(matrix')
         /\ TripletsOf(matrix') \subseteq StoredTriplets(entries)]_vars

\* Three or more entries, two of them in one row, with different values.
C4_Witness ==
    /\ last.op = "make_matrix"
    /\ fault = "none"
    /\ matrix.num_entries >= 3
    /\ \E n \in 1 .. matrix.num_entries - 1 :
          /\ matrix.row_indices[n] = matrix.row_indices[n + 1]
          /\ matrix.column_indices[n] < matrix.column_indices[n + 1]
          /\ matrix.values[n] # matrix.values[n + 1]

\* C5: with an entry in the matrix, num_rows is 1 + the largest row index and
\* num_cols is 1 + the largest column index of its entries.
C5_DimensionInference ==
    (fault = "none" /\ matrix.num_entries > 0) =>
       /\ get_num_rows = 1 + MaxElement(matrix.row_indices)
       /\ get_num_cols = 1 + MaxElement(matrix.column_indices)

\* C7: reset leaves the entry store empty and the accessors at 0 rows, 0
\* columns and 0 entries, so nothing staged before it is left to materialise;
\* on an instance that is already so, it changes neither.
C7_Reset ==
    [][ResetReturns =>
         /\ entries' = EmptyStore
         /\ StoredTriplets(entries') = {}
         /\ get_num_rows' = 0 /\ get_num_cols' = 0 /\ get_num_entries' = 0
         /\ matrix' = EmptyMatrix
         /\ (entries = EmptyStore /\ matrix = EmptyMatrix) =>
               (entries' = entries /\ matrix' = matrix)]_vars

\* A reset that discarded a materialised matrix.
C7_Witness ==
    /\ last.op = "reset"
    /\ last.hit
    /\ permutation # <<>>
    /\ entries = EmptyStore
    /\ get_num_entries = 0

RECURSIVE VSum(_, _)

\* The sum of f[n] over n in S.
VSum(f, S) ==
    IF S = {}
    THEN Zero
    ELSE LET n == CHOOSE q \in S : TRUE
         IN  VAdd(f[n], VSum(f, S \ {n}))

\* Element i of the product of the matrix whose entries are m's triplets with
\* x, and element c of the product of its transpose with x (0-based).
DenseProduct(m, x, i) ==
    VSum([n \in 1 .. m.num_entries |-> VMul(m.values[n], x[m.column_indices[n] + 1])],
         {n \in 1 .. m.num_entries : m.row_indices[n] = i})

DenseProductT(m, x, c) ==
    VSum([n \in 1 .. m.num_entries |-> VMul(m.values[n], x[m.row_indices[n] + 1])],
         {n \in 1 .. m.num_entries : m.column_indices[n] = c})

\* C6: the transpose view of a materialised matrix has num_cols rows and
\* num_rows columns, and SpMV with transpose = TRUE, given x of num_rows
\* elements and y of num_cols elements, leaves in y the product of the
\* transposed matrix with x.
C6_TransposeCorrectness ==
    (fault = "none" /\ matrix.num_entries > 0) =>
       /\ matrix_t.num_rows = matrix.num_cols
       /\ matrix_t.num_cols = matrix.num_rows
       /\ ( /\ out.op = "SpMV"
            /\ out.transpose
            /\ ~ out.conjugate
            /\ ~ out.aliased
            /\ Len(out.x_in) = matrix.num_rows
            /\ Len(out.y_in) = matrix.num_cols ) =>
              /\ ~ out.ub
              /\ Len(out.y) = matrix.num_cols
              /\ \A c \in 0 .. matrix.num_cols - 1 :
                    out.y[c + 1] = DenseProductT(matrix, out.x_in, c)

InCriticalSection(t) == thr[t].pc \in {"held", "staged"}

\* C8: no two threads are inside a guarded call's critical section at once,
\* and the thread inside holds the mutex; whenever no thread is inside one,
\* the store and the matrix's triplets are those of the calls applied one at
\* a time in the order they took the mutex, so no insert is lost.
C8_MutualExclusion ==
    /\ \A t, u \in Threads : (InCriticalSection(t) /\ InCriticalSection(u)) => t = u
    /\ \A t \in Threads : InCriticalSection(t) => mtx = t
    /\ (fault = "none" /\ \A t \in Threads : ~ InCriticalSection(t)) =>
          /\ entries = ser.entries
          /\ TripletsOf(matrix) = ser.triplets

\* A thread is inside make_matrix, its arrays staged, while another waits for
\* the mutex with an insert.
C8_Witness ==
    \E t, u \in Threads :
       /\ thr[t].pc = "staged"
       /\ Len(thr[t].h.V) >= 1
       /\ thr[u].pc = "lock"
       /\ thr[u].op = "insert_entry"
       /\ thr[u].val # Zero

\* C9: when make_matrix returns the entry store is empty, and the matrix holds
\* the non-zero entries the store held when it was swapped out and nothing of
\* the matrix before: an entry is in the matrix just built, or it is inserted
\* after the swap into the emptied store.
C9_ConsumesStore ==
    [][MakeMatrixReturns =>
         /\ entries' = EmptyStore
         /\ TripletsOf(matrix') = StoredTriplets(entries)
         /\ matrix'.num_entries = Cardinality(StoredTriplets(entries))
         /\ \A t \in Threads :
               (thr[t].pc = "lock" /\ thr[t].op = "insert_entry") => thr'[t] = thr[t]]_vars

\* make_matrix has returned with a matrix while an insert that was called
\* during it waits for the mutex, the store empty.
C9_Witness ==
    /\ last.op = "make_matrix"
    /\ fault = "none"
    /\ matrix.num_entries >= 1
    /\ entries = EmptyStore
    /\ \E t \in Threads : thr[t].pc = "lock" /\ thr[t].op = "insert_entry" /\ thr[t].val # Zero

(***************************************************************************)
(* SpMVP, lines 194-225, with no other call running.                       *)
(***************************************************************************)
\* ValueType(1), to which lines 207, 217 and 220 compare alpha and beta.
One == <<1, 0>>

\* thrust::transform(v, constant(a), v, multiplies): v[i] = v[i] * a
Scale(v, a) == [i \in DOMAIN v |-> VMul(v[i], a)]

\* line 223: transform(temp.begin(), temp.end(), y.begin(), y.begin(), plus)
\* walks temp's length through y.
AddInto(temp, y) ==
    IF Len(temp) > Len(y)
    THEN [ok |-> FALSE, y |-> y]
    ELSE [ok |-> TRUE,
          y |-> [i \in DOMAIN y |-> IF i <= Len(temp) THEN VAdd(temp[i], y[i]) ELSE y[i]]]

\* The call of SpMV at lines 205 and 215: what it leaves in its output
\* vector, ok being FALSE when an access fell outside a vector or went
\* through a view whose arrays are gone.
SpMVInto(x, y0, aliased, transpose, conjugate) ==
    LET m1 == ConjugatedFor(matrix, conjugate)
    IN  IF transpose /\ ~ ViewReadable(m1, permutation, matrix_t)
        THEN [ok |-> FALSE, y |-> y0]
        ELSE LET A == IF transpose THEN ViewOperand(m1, permutation, matrix_t) ELSE m1
             IN  IF aliased THEN MultiplyAliased(A, x) ELSE multiply(A, x, y0)

\* lines 201-209: beta == 0
SpMVP_BetaZero(alpha, x, y0, aliased, transpose, conjugate) ==
    LET s1 == IF alpha # Zero
              THEN SpMVInto(x, y0, aliased, transpose, conjugate)
              ELSE [ok |-> TRUE, y |-> IF aliased THEN x ELSE y0]
    IN  [ok |-> s1.ok, y |-> IF alpha # One THEN Scale(s1.y, alpha) ELSE s1.y]

\* lines 210-224: beta != 0
SpMVP_BetaNonZero(alpha, x, beta, y0, aliased, transpose, conjugate) ==
    LET temp == [i \in 1 .. Len(x) |-> Zero]
        s1 == IF alpha # Zero
              THEN SpMVInto(x, temp, FALSE, transpose, conjugate)
              ELSE [ok |-> TRUE, y |-> temp]
        t2 == IF alpha # Zero /\ alpha # One THEN Scale(s1.y, alpha) ELSE s1.y
        y1 == IF aliased THEN x ELSE y0
        y2 == IF beta # One THEN Scale(y1, beta) ELSE y1
        sum == AddInto(t2, y2)
    IN  [ok |-> s1.ok /\ sum.ok, y |-> sum.y]

SpMVP(alpha, x, beta, y0, aliased, transpose, conjugate) ==
    LET r == IF beta = Zero
             THEN SpMVP_BetaZero(alpha, x, y0, aliased, transpose, conjugate)
             ELSE SpMVP_BetaNonZero(alpha, x, beta, y0, aliased, transpose, conjugate)
        m2 == IF alpha # Zero
              THEN ConjugatedFor(ConjugatedFor(matrix, conjugate), conjugate)
              ELSE matrix
        call == [op |-> "SpMVP", x_in |-> x, y_in |-> IF aliased THEN x ELSE y0,
                 aliased |-> aliased, transpose |-> transpose, conjugate |-> conjugate,
                 x |-> x, y |-> y0, ub |-> FALSE, alpha |-> alpha, beta |-> beta]
    IN  /\ fault = "none"
        /\ \/ /\ r.ok
              /\ out' = [call EXCEPT !.x = IF aliased THEN r.y ELSE x, !.y = r.y]
              /\ matrix' = m2
              /\ last' = [op |-> "SpMVP", hit |-> FALSE]
              /\ UNCHANGED fault
           \/ /\ ~ r.ok
              /\ \/ /\ \E g \in GarbageVectors(IF aliased THEN Len(x) ELSE Len(y0)) :
                          out' = [call EXCEPT !.x = IF aliased THEN g ELSE x,
                                              !.y = g, !.ub = TRUE]
                    /\ matrix' = m2
                    /\ last' = [op |-> "SpMVP", hit |-> FALSE]
                    /\ UNCHANGED fault
                 \/ /\ fault' = "crash"
                    /\ UNCHANGED <<matrix, last, out>>
        /\ UNCHANGED <<entries, permutation, matrix_t, thrVars, fixedVars>>

(***************************************************************************)
(* One caller of SpMVP, with the flags at their defaults and scalars that  *)
(* take each branch: 0, 1 and a value that is neither.                     *)
(***************************************************************************)
ScalarInputs == {Zero, One, V2}

NextMVP ==
    \/ \E in \in InsertInputsMV : insert_entry(in[1], in[2], in[3])
    \/ make_matrix
    \/ reset
    \/ \E alpha, beta \in ScalarInputs, x \in XInputs :
          \/ SpMVP(alpha, x, beta, x, TRUE, FALSE, FALSE)
          \/ \E y0 \in YInputs : SpMVP(alpha, x, beta, y0, FALSE, FALSE, FALSE)

SpecMVP == Init /\ [][NextMVP]_vars

\* C11: SpMVP(alpha, x, beta, y) on a materialised matrix A, x holding
\* num_cols and y num_rows elements, leaves y = alpha (A x) + beta y_prior,
\* also when x and y are one object.
C11_ScaledMultiplyAdd ==
    ( /\ fault = "none"
      /\ out.op = "SpMVP"
      /\ matrix.num_entries > 0
      /\ ~ out.transpose
      /\ Len(out.x_in) = matrix.num_cols
      /\ Len(out.y_in) = matrix.num_rows ) =>
        /\ ~ out.ub
        /\ Len(out.y) = matrix.num_rows
        /\ \A i \in 0 .. matrix.num_rows - 1 :
              out.y[i + 1] = VAdd(VMul(out.alpha, DenseProduct(matrix, out.x_in, i)),
                                  VMul(out.beta, out.y_in[i + 1]))
        /\ out.aliased => out.x = out.y

\* The permutation and the view are the ones make_matrix builds from the
\* matrix as it is now.
ViewCurrent ==
    /\ permutation = TransposePermutation(matrix)
    /\ matrix_t = MakeView(matrix)

\* C12: reset discards the permutation and the transpose view with the
\* matrix, so that the view is left with no entry to read, and a SpMV with
\* transpose = TRUE reads entries only through a view built from the matrix
\* as it is: never through one whose matrix has since been rebuilt or reset.
C12_StaleViewSafety ==
    /\ (fault = "none" /\ last.op = "reset") =>
          /\ permutation = <<>>
          /\ matrix_t.num_entries = 0
    /\ (out.op = "SpMV" /\ out.transpose /\ matrix_t.num_entries > 0) => ViewCurrent

\* C13: make_matrix called when the store holds no non-zero entry completes:
\* it returns, without a fault, with num_entries = 0 and empty arrays.
C13_DegenerateDimension ==
    [][(fault = "none" /\ StoredTriplets(entries) = {} /\ make_matrix) =>
          /\ fault' = "none"
          /\ last'.op = "make_matrix"
          /\ get_num_entries' = 0
          /\ matrix'.values = <<>>]_vars

(***************************************************************************)
(* The calls that take no lock, step by step: the accessors (lines 20-30), *)
(* SpMV (lines 151-191), spectral_radius (lines 228-231) and gmres (lines  *)
(* 235-245).  SpMVP reaches the matrix through its call of SpMV.           *)
(***************************************************************************)
GuardedOps == {"insert_entry", "remove_entry", "make_matrix", "reset", "print_matrix"}

NumericOps == {"SpMV", "spectral_radius", "gmres"}

\* Mutant: every call starts with a lock_guard.
EntryPc_AllGuarded(op) == "lock"

\* Where a call stands once entered: at its lock_guard, or in its body.
EntryPc(op) == IF op \in GuardedOps THEN "lock" ELSE "run"

CallUnguarded(t, op, x, y0, transpose, conjugate) ==
    /\ fault = "none"
    /\ thr[t].pc = "idle"
    /\ thr' = [thr EXCEPT ![t] = [Idle EXCEPT !.pc = EntryPc(op), !.op = op,
                                              !.x = x, !.y = y0,
                                              !.transpose = transpose,
                                              !.conjugate = conjugate]]
    /\ UNCHANGED <<entries, matrix, permutation, matrix_t, fault, last, out, mtx, ser, fixedVars>>

\* return matrix.num_rows (num_cols, num_entries).  A read that met a write
\* yields the field as it is or anything else.
AccessorBody(t) ==
    LET now == CASE thr[t].op = "get_num_rows" -> get_num_rows
                 [] thr[t].op = "get_num_cols" -> get_num_cols
                 [] thr[t].op = "get_num_entries" -> get_num_entries
        raced == thr[t].race # "none"
    IN  /\ fault = "none"
        /\ thr[t].pc = "run"
        /\ thr[t].op \in Accessors
        /\ \E v \in (IF raced THEN GarbageValues ELSE {}) \cup {now} :
              out' = [op |-> thr[t].op, value |-> v, ub |-> raced]
        /\ last' = [op |-> thr[t].op, hit |-> raced]
        /\ thr' = [thr EXCEPT ![t] = Idle]
        /\ UNCHANGED <<entries, matrix, permutation, matrix_t, fault, mtx, ser, fixedVars>>

\* th after thread t has written the stored values: the multiplies of the
\* other threads under way have met it.
ConjSeen(th, t, written) ==
    [u \in Threads |->
        IF written /\ u # t /\ th[u].pc = "mul" /\ th[u].race = "none"
        THEN [th[u] EXCEPT !.race = "conjugate"]
        ELSE th[u]]

\* SpMV up to its multiply (lines 156-163), spectral_radius and gmres up to
\* theirs.
NumericBegin(t) ==
    LET m1 == IF thr[t].op = "SpMV" THEN ConjugatedFor(matrix, thr[t].conjugate) ELSE matrix
    IN  /\ fault = "none"
        /\ thr[t].pc = "run"
        /\ thr[t].op \in NumericOps
        /\ matrix' = m1
        /\ thr' = ConjSeen([thr EXCEPT ![t].pc = "mul"], t, m1 # matrix)
        /\ UNCHANGED <<entries, permutation, matrix_t, fault, last, out, mtx, ser, fixedVars>>

\* The multiply and the rest of the call (lines 166-190; 230; 242-244).  x
\* and y are two objects.
NumericEnd(t) ==
    LET c == thr[t]
        readable == ~ c.transpose \/ ViewReadable(matrix, permutation, matrix_t)
        A == IF c.transpose THEN ViewOperand(matrix, permutation, matrix_t) ELSE matrix
        r == multiply(A, c.x, c.y)
        clean == /\ c.race = "none"
                 /\ c.op = "SpMV" => (readable /\ r.ok)
        m2 == IF c.op = "SpMV" THEN ConjugatedFor(matrix, c.conjugate) ELSE matrix
        call == [op |-> c.op, x_in |-> c.x, y_in |-> c.y, aliased |-> FALSE,
                 transpose |-> c.transpose, conjugate |-> c.conjugate,
                 x |-> c.x, y |-> c.y, ub |-> FALSE]
    IN  /\ fault = "none"
        /\ c.pc = "mul"
        /\ \/ /\ clean
              /\ out' = IF c.op = "SpMV" THEN [call EXCEPT !.y = r.y] ELSE call
              /\ matrix' = m2
              /\ last' = [op |-> c.op, hit |-> FALSE]
              /\ thr' = ConjSeen([thr EXCEPT ![t] = Idle], t, m2 # matrix)
              /\ UNCHANGED fault
           \/ /\ ~ clean
              /\ \/ /\ \E g \in GarbageVectors(Len(c.y)) :
                          out' = [call EXCEPT !.y = g, !.ub = TRUE]
                    /\ matrix' = m2
                    /\ last' = [op |-> c.op, hit |-> TRUE]
                    /\ thr' = ConjSeen([thr EXCEPT ![t] = Idle], t, m2 # matrix)
                    /\ UNCHANGED fault
                 \/ /\ fault' = "crash"
                    /\ UNCHANGED <<matrix, last, out, thr>>
        /\ UNCHANGED <<entries, permutation, matrix_t, mtx, ser, fixedVars>>

(***************************************************************************)
(* Two threads on a 1 x 1 complex matrix.  The writer stages, materialises *)
(* and resets it, and multiplies with conjugate = TRUE; the reader calls   *)
(* what takes no lock.                                                     *)
(***************************************************************************)
Writer == "t1"

Reader == "t2"

InsertInputsR == {<<0, 0, V2>>}

XInputR == <<V1>>

YInputR == <<V2>>

NextRace ==
    \/ \E in \in InsertInputsR : Call(Writer, "insert_entry", in[1], in[2], in[3])
    \/ Call(Writer, "make_matrix", 0, 0, Zero)
    \/ Call(Writer, "reset", 0, 0, Zero)
    \/ CallUnguarded(Writer, "SpMV", XInputR, YInputR, FALSE, TRUE)
    \/ \E op \in Accessors : CallUnguarded(Reader, op, <<>>, <<>>, FALSE, FALSE)
    \/ \E op \in NumericOps \ {"SpMV"} :
          CallUnguarded(Reader, op, XInputR, YInputR, FALSE, FALSE)
    \/ \E transpose, conjugate \in BOOLEAN :
          CallUnguarded(Reader, "SpMV", XInputR, YInputR, transpose, conjugate)
    \/ \E t \in Threads :
          \/ Lock(t)
          \/ InsertBody(t)
          \/ MakeStage(t)
          \/ MakeBuild(t)
          \/ ResetBody(t)
          \/ AccessorBody(t)
          \/ NumericBegin(t)
          \/ NumericEnd(t)

SpecRace == Init /\ [][NextRace]_vars

\* C14: an accessor never runs while another thread is inside make_matrix or
\* reset, and never returns a dimension read while the matrix was being
\* written.
C14_AccessorsSerialized ==
    /\ \A t, u \in Threads :
          (thr[t].op \in Accessors /\ thr[t].pc = "run") =>
             ~ (InCriticalSection(u) /\ thr[u].op \in {"make_matrix", "reset"})
    /\ out.op \in Accessors => ~ out.ub

\* C15: a call of SpMV, spectral_radius or gmres never holds the mutex and
\* never waits for it, and its next step can be taken whoever holds the
\* mutex: also while another thread is inside make_matrix or reset.
C15_NumericOutsideLock ==
    \A t \in Threads :
       thr[t].op \in NumericOps =>
          /\ mtx # t
          /\ thr[t].pc \in {"run", "mul"}
          /\ fault = "none" => ENABLED (NumericBegin(t) \/ NumericEnd(t))

\* The reader is in the middle of a multiply that has met the writer's
\* conjugation of the stored values, while the writer is inside make_matrix
\* with the mutex held.
C15_Witness ==
    /\ thr[Reader].op = "SpMV"
    /\ thr[Reader].pc = "mul"
    /\ thr[Reader].race = "conjugate"
    /\ thr[Writer].op = "make_matrix"
    /\ thr[Writer].pc = "staged"
    /\ mtx = Writer
    /\ matrix.num_entries > 0

(***************************************************************************)
(* print_matrix, lines 146-149, and the guarded calls of two threads under *)
(* fair scheduling: a thread inside a lock_guard's scope goes on running,  *)
(* and a thread waiting for the mutex gets it if it is free again and      *)
(* again.  Nothing obliges a thread to call.                               *)
(***************************************************************************)
\* Mutant: the mutex stays locked when print_matrix returns.
PrintBody_KeepsLock(t) ==
    /\ fault = "none"
    /\ thr[t].pc = "held"
    /\ thr[t].op = "print_matrix"
    /\ last' = [op |-> "print_matrix", hit |-> FALSE]
    /\ out' = NoCall
    /\ thr' = [thr EXCEPT ![t] = Idle]
    /\ UNCHANGED <<entries, matrix, permutation, matrix_t, fault, mtx, ser, fixedVars>>

\* cusp::print(matrix), then the end of the lock_guard's scope
PrintBody(t) ==
    /\ fault = "none"
    /\ thr[t].pc = "held"
    /\ thr[t].op = "print_matrix"
    /\ last' = [op |-> "print_matrix", hit |-> FALSE]
    /\ out' = NoCall
    /\ mtx' = NoThread
    /\ thr' = [thr EXCEPT ![t] = Idle]
    /\ UNCHANGED <<entries, matrix, permutation, matrix_t, fault, ser, fixedVars>>

\* The steps of a thread inside a lock_guard's scope.
GuardedBody(t) ==
    \/ InsertBody(t)
    \/ RemoveBody(t)
    \/ MakeStage(t)
    \/ MakeBuild(t)
    \/ ResetBody(t)
    \/ PrintBody(t)

InsertInputsL == {<<0, 0, V1>>}

RemoveInputsL == {<<0, 0>>}

NextLive ==
    \E t \in Threads :
       \/ \E in \in InsertInputsL : Call(t, "insert_entry", in[1], in[2], in[3])
       \/ \E rc \in RemoveInputsL : Call(t, "remove_entry", rc[1], rc[2], Zero)
       \/ Call(t, "make_matrix", 0, 0, Zero)
       \/ Call(t, "reset", 0, 0, Zero)
       \/ Call(t, "print_matrix", 0, 0, Zero)
       \/ Lock(t)
       \/ InsertBody(t)
       \/ RemoveBody(t)
       \/ MakeStage(t)
       \/ MakeBuild(t)
       \/ ResetBody(t)
       \/ PrintBody(t)

Fairness == \A t \in Threads : WF_vars(GuardedBody(t)) /\ SF_vars(Lock(t))

SpecLive == Init /\ [][NextLive]_vars /\ Fairness

\* C16: the mutex is held only by a thread inside a guarded call, so every
\* call has released it when it returns; no thread waits for a mutex it
\* holds; while the process runs, a thread waiting for the mutex or inside a
\* guarded call always leaves some thread able to step (no deadlock); and
\* under fair scheduling every call that was started returns, unless the
\* process has faulted.
C16_NoIndefiniteBlocking ==
    /\ [](\A t \in Threads :
             /\ mtx = t => InCriticalSection(t)
             /\ thr[t].pc = "lock" => mtx # t)
    /\ []((fault = "none" /\ \E t \in Threads : thr[t].pc # "idle") =>
             \E u \in Threads : ENABLED (Lock(u) \/ GuardedBody(u)))
    /\ \A t \in Threads :
          (thr[t].pc # "idle") ~> (thr[t].pc = "idle" \/ fault = "crash")

\* A print_matrix has returned and released the mutex while the other
\* thread waits for it with make_matrix.
C16_Witness ==
    /\ last.op = "print_matrix"
    /\ mtx = NoThread
    /\ \E t \in Threads : thr[t].pc = "lock" /\ thr[t].op = "make_matrix"
    /\ matrix.num_entries > 0

\* The entries of m read through the positions perm (0-based) are in
\* column-major order.
ColumnMajorThrough(m, perm) ==
    \A n \in 1 .. Len(perm) - 1 :
       LET a == perm[n] + 1
           b == perm[n + 1] + 1
       IN  \/ m.column_indices[a] < m.column_indices[b]
           \/ /\ m.column_indices[a] = m.column_indices[b]
              /\ m.row_indices[a] <= m.row_indices[b]

\* C17: after make_matrix the permutation has num_entries elements and
\* names each position 0 .. num_entries - 1 once; the matrix's entries read
\* through it are in column-major order, rows non-decreasing within a
\* column; and the view has the matrix's entry count and reads the matrix's
\* own arrays through the permutation.
C17_TransposePermutation ==
    [][MakeMatrixReturns =>
         /\ Len(permutation') = matrix'.num_entries
         /\ Range(permutation') = 0 .. matrix'.num_entries - 1
         /\ ColumnMajorThrough(matrix', permutation')
         /\ matrix_t'.num_entries = matrix'.num_entries
         /\ ViewReadable(matrix', permutation', matrix_t')
         /\ ViewOperand(matrix', permutation', matrix_t').values =
               [n \in 1 .. matrix'.num_entries |-> matrix'.values[permutation'[n] + 1]]]_vars

(***************************************************************************)
(* The instances: the value type is complex or real, and the wrapper is    *)
(* default-constructed (line 14) or constructed from a matrix (lines       *)
(* 16-18).  The parameter of that constructor is named matrix as the       *)
(* member is, so line 17 assigns the parameter to itself: the member is    *)
(* left default-constructed.  last records the call and its argument.      *)
(***************************************************************************)
ValueTypes == {"dcomplex", "double"}

\* A value as a caller of this instance can pass it.
AsValueType(v) == IF ValueType = "dcomplex" THEN v ELSE <<v[1], 0>>

AsValueTypes(s) == [i \in DOMAIN s |-> AsValueType(s[i])]

\* A 1 x 2 and a 2 x 2 matrix.
MatrixInputs ==
    {[num_rows |-> 1, num_cols |-> 2, num_entries |-> 1,
      row_indices |-> <<0>>, column_indices |-> <<1>>, values |-> <<V1>>],
     [num_rows |-> 2, num_cols |-> 2, num_entries |-> 2,
      row_indices |-> <<0, 1>>, column_indices |-> <<0, 1>>, values |-> <<V1, V1>>]}

\* The members after SparseMatrixWrapper(matrix), lines 16-18
ConstructedFrom(m) ==
    /\ entries = EmptyStore
    /\ matrix = EmptyMatrix
    /\ permutation = <<>>
    /\ matrix_t = EmptyView
    /\ last = [op |-> "SparseMatrixWrapper", hit |-> FALSE, matrix |-> m]

\* The members after SparseMatrixWrapper(), line 14
DefaultConstructed ==
    /\ entries = EmptyStore
    /\ matrix = EmptyMatrix
    /\ permutation = <<>>
    /\ matrix_t = EmptyView
    /\ last = [op |-> "none", hit |-> FALSE]

InitInstances ==
    /\ ValueType \in ValueTypes
    /\ \/ DefaultConstructed
       \/ \E m \in MatrixInputs : ConstructedFrom(m)
    /\ fault = "none"
    /\ out = NoCall
    /\ mtx = NoThread
    /\ thr = [t \in Threads |-> Idle]
    /\ ser = [entries |-> EmptyStore, triplets |-> {}]

NextInstances ==
    \/ \E in \in InsertInputsMV : insert_entry(in[1], in[2], AsValueType(in[3]))
    \/ make_matrix
    \/ reset
    \/ \E x \in XInputs, transpose, conjugate \in BOOLEAN :
          \/ SpMV(AsValueTypes(x), AsValueTypes(x), TRUE, transpose, conjugate)
          \/ \E y0 \in YInputs :
                SpMV(AsValueTypes(x), AsValueTypes(y0), FALSE, transpose, conjugate)

SpecInstances == InitInstances /\ [][NextInstances]_vars

\* The matrix a call with this conjugate flag multiplies with, by the claim:
\* the stored values conjugated, which for a real value type are the stored
\* values.
ConjugateOf(m, conjugate) ==
    IF conjugate
    THEN [m EXCEPT !.values = [n \in DOMAIN m.values |-> <<m.values[n][1], 0 - m.values[n][2]>>]]
    ELSE m

\* C18: a SpMV that returns leaves every stored value, and the matrix, as it
\* was before the call.  With conjugate = TRUE its result is the product
\* with the conjugated values: of the matrix (transpose = FALSE, vectors
\* long enough) and of the transposed matrix (transpose = TRUE, on a square
\* matrix whose view is current), with x and y one object or two.  For a
\* real value type that is the product with the stored values, the result
\* of the call with conjugate = FALSE.
C18_ConjugationRestored ==
    [][(last'.op = "SpMV" /\ fault' = "none") =>
         /\ matrix' = matrix
         /\ ( /\ ~ out'.ub
              /\ ~ out'.transpose
              /\ Len(out'.x_in) >= matrix.num_cols
              /\ Len(out'.y_in) >= matrix.num_rows ) =>
                \A i \in 0 .. matrix.num_rows - 1 :
                   out'.y[i + 1] =
                      DenseProduct(ConjugateOf(matrix, out'.conjugate), out'.x_in, i)
         /\ ( /\ ~ out'.ub
              /\ out'.transpose
              /\ ViewCurrent
              /\ matrix.num_rows = matrix.num_cols
              /\ Len(out'.x_in) = matrix.num_rows ) =>
                \A c \in 0 .. matrix.num_cols - 1 :
                   out'.y[c + 1] =
                      DenseProductT(ConjugateOf(matrix, out'.conjugate), out'.x_in, c)
         /\ ValueType = "double" =>
               ConjugateOf(matrix, out'.conjugate) = matrix]_vars

\* A complex 2 x 2 matrix with a value that is not real has been multiplied
\* with conjugate = TRUE through the view, x and y one object, and the
\* result is not the product with the stored values.
C18_Witness ==
    /\ ValueType = "dcomplex"
    /\ out.op = "SpMV"
    /\ out.conjugate
    /\ out.transpose
    /\ out.aliased
    /\ ~ out.ub
    /\ matrix.num_rows = 2
    /\ matrix.num_cols = 2
    /\ \E c \in 0 .. 1 : out.y[c + 1] # DenseProductT(matrix, out.x_in, c)
    /\ \E n \in 1 .. matrix.num_entries : matrix.values[n][2] # 0

\* C19: directly after SparseMatrixWrapper(m) the accessors return the
\* dimensions and the entry count of m.
C19_ConstructorHoldsMatrix ==
    last.op = "SparseMatrixWrapper" =>
       /\ get_num_rows = last.matrix.num_rows
       /\ get_num_cols = last.matrix.num_cols
       /\ get_num_entries = last.matrix.num_entries

(***************************************************************************)
(* One caller that inserts and removes at the coordinates made of the      *)
(* smallest, the next and the largest index: the keys at both ends of the  *)
(* key range and on both sides of a row boundary.                          *)
(***************************************************************************)
CodecIndexInputs == {0, 1, MaxIndex}

NextCodec ==
    \/ \E row, col \in CodecIndexInputs : insert_entry(row, col, V1)
    \/ \E row, col \in CodecIndexInputs : remove_entry(row, col)

SpecCodec == Init /\ [][NextCodec]_vars

\* C20: key_to_row_col undoes row_col_to_key on every pair of indices; keys
\* order as their coordinates do, by row and then by column, so that two
\* coordinates never share a key; and every key in the store is the key of
\* the coordinate it decodes to, no two stored keys decoding to one
\* coordinate.
C20_KeyCodecLossless ==
    /\ \A row, col \in IndexValues :
          key_to_row_col(row_col_to_key(row, col)) = <<row, col>>
    /\ \A r1, c1, r2, c2 \in IndexValues :
          (row_col_to_key(r1, c1) < row_col_to_key(r2, c2)) <=>
             (r1 < r2 \/ (r1 = r2 /\ c1 < c2))
    /\ \A k \in DOMAIN entries :
          row_col_to_key(key_to_row_col(k)[1], key_to_row_col(k)[2]) = k
    /\ \A k1, k2 \in DOMAIN entries :
          k1 # k2 => key_to_row_col(k1) # key_to_row_col(k2)

\* The store holds the last coordinate of row 0, the first of row 1 and the
\* largest coordinate, under three keys.
C20_Witness ==
    /\ Cardinality(DOMAIN entries) >= 3
    /\ row_col_to_key(0, MaxIndex) \in DOMAIN entries
    /\ row_col_to_key(1, 0) \in DOMAIN entries
    /\ row_col_to_key(MaxIndex, MaxIndex) \in DOMAIN entries
    /\ key_to_row_col(row_col_to_key(MaxIndex, MaxIndex)) = <<MaxIndex, MaxIndex>>

====
